---- MODULE Spec2Model ----
(***************************************************************************)
(* Model of the rename engine of renomear_arquivos                         *)
(* (src/functions/file_renamer.py, with the helpers of                     *)
(* src/functions/encoding_utils.py it calls).                              *)
(*                                                                         *)
(* Texts that the code processes character by character (titles, file      *)
(* names) are sequences of one-character strings; a path that is only used *)
(* as a key of the filesystem is the string obtained by concatenating the  *)
(* characters (Str).  All files live in the one base directory of the      *)
(* engine, so a path is the file name inside that directory.               *)
(***************************************************************************)
EXTENDS Integers, Sequences, FiniteSets, TLC

(***************************************************************************)
(* Bounds of the model.                                                    *)
(***************************************************************************)
\* largest number of steps (calls of the engine, changes by the external
\* actor) of a behaviour
MaxSteps == 3
\* largest number of changes the external actor makes to the directory
MaxExternal == 1
\* largest number of entries of the log of conflict resolutions
MaxResolved == 3

(***************************************************************************)
(* Python values.                                                          *)
(***************************************************************************)
None == "<None>"

(***************************************************************************)
(* Characters.                                                             *)
(***************************************************************************)
\* ord(char) for the characters of the model
Ord(c) ==
    CASE c = "\n" -> 10
      [] c = "\t" -> 9
      [] c = "\r" -> 13
      [] c = " " -> 32
      [] c = "*" -> 42
      [] c = "-" -> 45
      [] c = "." -> 46
      [] c = "/" -> 47
      [] c = ":" -> 58
      [] c = "?" -> 63
      [] c = "A" -> 65
      [] c = "B" -> 66
      [] c = "_" -> 95
      [] c = "a" -> 97
      [] c = "b" -> 98
      [] OTHER -> 120

\* str.isspace(), the separators of str.split() and str.strip()
IsSpace(c) == c \in {" ", "\n", "\t", "\r"}

\* str.isalnum()
IsAlnum(c) ==
    c \in {"A", "B", "C", "D", "O", "X", "P", "F", "T",
           "a", "b", "c", "d", "o", "x", "p", "f", "t", "q", "u", "i", "v",
           "r", "s", "e", "m", "n", "h",
           "0", "1", "2", "3", "4", "5", "6", "7", "8", "9"}

\* str.lower() on one character
LowerChar(c) ==
    CASE c = "A" -> "a" [] c = "B" -> "b" [] c = "C" -> "c" [] c = "D" -> "d"
      [] c = "O" -> "o" [] c = "X" -> "x" [] c = "P" -> "p" [] c = "F" -> "f"
      [] c = "T" -> "t"
      [] OTHER -> c

Lower(s) == [i \in 1..Len(s) |-> LowerChar(s[i])]

\* the string spelled by a sequence of characters
RECURSIVE Str(_)
Str(s) ==
    IF s = <<>> THEN ""
    ELSE IF Len(s) = 1 THEN s[1]
    ELSE IF Len(s) = 2 THEN s[1] \o s[2]
    ELSE IF Len(s) = 3 THEN s[1] \o s[2] \o s[3]
    ELSE IF Len(s) = 4 THEN s[1] \o s[2] \o s[3] \o s[4]
    ELSE IF Len(s) = 5 THEN s[1] \o s[2] \o s[3] \o s[4] \o s[5]
    ELSE IF Len(s) = 6 THEN s[1] \o s[2] \o s[3] \o s[4] \o s[5] \o s[6]
    ELSE Str(SubSeq(s, 1, Len(s) \div 2)) \o Str(SubSeq(s, Len(s) \div 2 + 1, Len(s)))

Digit(n) == <<"0", "1", "2", "3", "4", "5", "6", "7", "8", "9">>[n + 1]

\* format(n, "02d"), format(n, "03d"), format(n, "06d")
Pad2(n) == <<Digit((n \div 10) % 10), Digit(n % 10)>>
Pad3(n) == <<Digit((n \div 100) % 10)>> \o Pad2(n)
Pad6(n) == Pad3((n \div 1000) % 1000) \o Pad3(n % 1000)

(***************************************************************************)
(* String helpers of Python, on sequences of characters.                   *)
(***************************************************************************)
\* s.replace(old, new) for single characters
ReplaceChar(s, old, new) == [i \in 1..Len(s) |-> IF s[i] = old THEN new ELSE s[i]]

Min(S) == CHOOSE i \in S : \A j \in S : i <= j
Max(S) == CHOOSE i \in S : \A j \in S : j <= i

\* ' '.join(s.split()): the maximal runs of non-whitespace characters, with
\* one space between a run and the next
JoinSplit(s) ==
    LET Drop == "<drop>"
        marked == [i \in 1..Len(s) |->
                     IF ~IsSpace(s[i]) THEN s[i]
                     ELSE IF /\ i > 1
                             /\ ~IsSpace(s[i - 1])
                             /\ \E j \in (i + 1)..Len(s) : ~IsSpace(s[j])
                          THEN " "
                          ELSE Drop]
    IN  SelectSeq(marked, LAMBDA c : c # Drop)

\* s.strip()
Strip(s) ==
    LET solid == {i \in 1..Len(s) : ~IsSpace(s[i])}
    IN  IF solid = {} THEN <<>> ELSE SubSeq(s, Min(solid), Max(solid))

\* s.rstrip('.')
RStripDots(s) ==
    LET solid == {i \in 1..Len(s) : s[i] # "."}
    IN  IF solid = {} THEN <<>> ELSE SubSeq(s, 1, Max(solid))

\* s.rsplit(' ', 1)[0]
RSplitSpaceHead(s) ==
    LET spaces == {i \in 1..Len(s) : s[i] = " "}
    IN  IF spaces = {} THEN s ELSE SubSeq(s, 1, Max(spaces) - 1)

(***************************************************************************)
(* encoding_utils.py                                                       *)
(***************************************************************************)
ForbiddenChars == {"<", ">", ":", "\"", "/", "\\", "|", "?", "*"}

normalize_text(text) ==
    LET normalized == SelectSeq(text, LAMBDA c : Ord(c) >= 32)
        replaced   == ReplaceChar(ReplaceChar(normalized, "\n", " "), "\r", " ")
    IN  JoinSplit(replaced)

\* as safe_filename, the length not limited
safe_filename_untruncated(filename, max_length) ==
    LET replaced  == [i \in 1..Len(filename) |->
                         IF filename[i] \in ForbiddenChars THEN "_" ELSE filename[i]]
        nodots    == RStripDots(JoinSplit(Strip(replaced)))
    IN  IF nodots = <<>>
        THEN <<"a","r","q","u","i","v","o","_","s","e","m","_","n","o","m","e">>
        ELSE nodots

safe_filename(filename, max_length) ==
    LET replaced  == [i \in 1..Len(filename) |->
                         IF filename[i] \in ForbiddenChars THEN "_" ELSE filename[i]]
        stripped  == Strip(replaced)
        collapsed == JoinSplit(stripped)
        limited   == IF Len(collapsed) > max_length
                     THEN RSplitSpaceHead(SubSeq(collapsed, 1, max_length))
                     ELSE collapsed
        nodots    == RStripDots(limited)
    IN  IF nodots = <<>>
        THEN <<"a","r","q","u","i","v","o","_","s","e","m","_","n","o","m","e">>
        ELSE nodots

(***************************************************************************)
(* pathlib: the parts of a file name.                                      *)
(***************************************************************************)
\* PurePath.suffix: from the last dot, unless it is the first or last character
Suffix(name) ==
    LET dots == {i \in 1..Len(name) : name[i] = "."}
    IN  IF dots = {} THEN <<>>
        ELSE IF Max(dots) > 1 /\ Max(dots) < Len(name)
             THEN SubSeq(name, Max(dots), Len(name))
        ELSE <<>>

\* PurePath.stem
Stem(name) == SubSeq(name, 1, Len(name) - Len(Suffix(name)))


(***************************************************************************)
(* The clock.  An instant is a number of microseconds after                *)
(* 2024-01-01 10:00:00.000000; the instants of the model stay within that  *)
(* hour.                                                                   *)
(***************************************************************************)
MicrosPerSecond == 1000 * 1000
MicrosPerMinute == 60 * MicrosPerSecond

\* the instants at which the clock is read: one, the next microsecond, and
\* one in the next minute
Instants == {0, 1, MicrosPerMinute}

Hour(t)   == 10 + (t \div MicrosPerMinute) \div 60
Minute(t) == (t \div MicrosPerMinute) % 60
Second(t) == (t \div MicrosPerSecond) % 60
Micro(t)  == t % MicrosPerSecond

\* datetime.now().strftime("%Y-%m-%d_%Hh%M")
generate_timestamp(t) ==
    <<"2","0","2","4","-","0","1","-","0","1","_">>
        \o Pad2(Hour(t)) \o <<"h">> \o Pad2(Minute(t))

\* datetime.now().strftime("%Y%m%d_%H%M%S_%f")[:17]
precise_timestamp(t) ==
    SubSeq(<<"2","0","2","4","0","1","0","1","_">>
               \o Pad2(Hour(t)) \o Pad2(Minute(t)) \o Pad2(Second(t))
               \o <<"_">> \o Pad6(Micro(t)),
           1, 17)

\* datetime.now().isoformat(): the microseconds are omitted when they are 0
isoformat(t) ==
    Str(<<"2","0","2","4","-","0","1","-","0","1","T">>
            \o Pad2(Hour(t)) \o <<":">> \o Pad2(Minute(t)) \o <<":">> \o Pad2(Second(t))
            \o (IF Micro(t) = 0 THEN <<>> ELSE <<".">> \o Pad6(Micro(t))))

(***************************************************************************)
(* file_renamer.py: names.                                                 *)
(***************************************************************************)
\* the stem length the synthesizer passes to safe_filename
MaxTitleLength == 100
\* the last counter the conflict resolver tries
MaxCounter == 999

Arquivo == <<"a","r","q","u","i","v","o">>

get_file_type_from_extension(extension) ==
    LET ext == Str(Lower(extension))
    IN  IF ext \in {".doc", ".docx"} THEN "word"
        ELSE IF ext \in {".xls", ".xlsx"} THEN "excel"
        ELSE IF ext \in {".ppt", ".pptx"} THEN "powerpoint"
        ELSE IF ext = ".pdf" THEN "pdf"
        ELSE IF ext = ".csv" THEN "csv"
        ELSE "unknown"

generate_new_filename(title, original_path, timestamp) ==
    LET extension == Suffix(original_path)
        normal    == IF title # <<>> THEN normalize_text(title) ELSE Arquivo
        safe      == safe_filename(normal, MaxTitleLength)
        unspaced  == ReplaceChar(safe, " ", "_")
        kept      == SelectSeq(unspaced, LAMBDA c : IsAlnum(c) \/ c \in {"-", "_"})
        clean     == IF kept = <<>> \/ kept = <<"_">> THEN Arquivo ELSE kept
    IN  clean \o <<"_">> \o timestamp \o extension

\* the base directory, and the path of a name in it (parent / name)
BaseDir == "/d/"
PathStr(name) == BaseDir \o Str(name)

\* Path.exists() of a path
Exists(files, path) == path \in DOMAIN files

\* f"{base_name}_{counter:03d}{extension}" in the directory of the target;
\* base_name and extension are strings
Candidate(base_name, counter, extension) ==
    base_name \o "_" \o Str(Pad3(counter)) \o extension

\* as first_free, the candidates not looked up in the directory
first_free_unchecked(files, base_name, extension, lo, hi) == lo

\* as first_free, the range searched from its upper end
RECURSIVE first_free_downwards(_, _, _, _, _)
first_free_downwards(files, base_name, extension, lo, hi) ==
    IF lo = hi
    THEN (IF Exists(files, BaseDir \o Candidate(base_name, lo, extension))
          THEN 0 ELSE lo)
    ELSE LET mid   == (lo + hi) \div 2
             above == first_free_downwards(files, base_name, extension, mid + 1, hi)
         IN  IF above # 0 THEN above
             ELSE first_free_downwards(files, base_name, extension, lo, mid)

\* the first counter in lo..hi whose candidate does not exist, 0 when all
\* exist: the counter at which the loop "counter = 1; while True: ...;
\* counter += 1" returns, found by halving the range
RECURSIVE first_free(_, _, _, _, _)
first_free(files, base_name, extension, lo, hi) ==
    IF lo = hi
    THEN (IF Exists(files, BaseDir \o Candidate(base_name, lo, extension))
          THEN 0 ELSE lo)
    ELSE LET mid   == (lo + hi) \div 2
             below == first_free(files, base_name, extension, lo, mid)
         IN  IF below # 0 THEN below
             ELSE first_free(files, base_name, extension, mid + 1, hi)

\* as resolve_name_conflict, without the loop: only the counter 1 is tried
resolve_name_conflict_once(files, target_path, t) ==
    IF ~Exists(files, PathStr(target_path)) THEN Str(target_path)
    ELSE Str(Stem(target_path)) \o "_" \o Str(Pad3(1)) \o Str(Suffix(target_path))

\* as resolve_name_conflict, a target that exists always given the name with
\* the precise timestamp
resolve_name_conflict_stamped(files, target_path, t) ==
    IF ~Exists(files, PathStr(target_path)) THEN Str(target_path)
    ELSE Str(Stem(target_path)) \o "_" \o Str(precise_timestamp(t))
             \o Str(Suffix(target_path))

\* The name of the path returned for the name target_path (a sequence of
\* characters) in the base directory.  The loop returns the first candidate
\* that does not exist; once counter has passed MaxCounter it returns the
\* name with the precise timestamp of instant t, unchecked.
resolve_name_conflict(files, target_path, t) ==
    IF ~Exists(files, PathStr(target_path)) THEN Str(target_path)
    ELSE LET base_name == Str(Stem(target_path))
             extension == Str(Suffix(target_path))
             counter   == first_free(files, base_name, extension, 1, MaxCounter)
         IN  IF counter # 0
             THEN Candidate(base_name, counter, extension)
             ELSE base_name \o "_" \o Str(precise_timestamp(t)) \o extension

\* the name with the precise timestamp of instant t instead of a counter;
\* base_name and extension are strings
Fallback(base_name, extension, t) ==
    base_name \o "_" \o Str(precise_timestamp(t)) \o extension

\* as loop_pass, the counter left as it is when the candidate exists
loop_pass_stuck(files, base_name, extension, counter, t) ==
    LET new_name == Candidate(base_name, counter, extension)
    IN  IF ~Exists(files, BaseDir \o new_name)
        THEN [returned |-> TRUE, name |-> new_name, counter |-> counter]
        ELSE [returned |-> FALSE, name |-> "", counter |-> counter]

\* one pass of the body of "while True" with the counter as it stands: the
\* candidate is returned when it does not exist; otherwise the counter is
\* incremented and, once it has passed MaxCounter, the name with the precise
\* timestamp of instant t is returned
loop_pass(files, base_name, extension, counter, t) ==
    LET new_name == Candidate(base_name, counter, extension)
    IN  IF ~Exists(files, BaseDir \o new_name)
        THEN [returned |-> TRUE, name |-> new_name, counter |-> counter]
        ELSE IF counter + 1 > MaxCounter
        THEN [returned |-> TRUE, name |-> Fallback(base_name, extension, t),
              counter |-> counter + 1]
        ELSE [returned |-> FALSE, name |-> "", counter |-> counter + 1]

(***************************************************************************)
(* The state.                                                              *)
(***************************************************************************)
VARIABLES
    os_name,      \* os.name of the platform: "posix" or "nt"
    now,          \* the clock, an instant
    fs,           \* the files of the base directory: path string -> content
    writable,     \* os.access(base directory, os.W_OK)
    persisted,    \* the file .rename_history.json
    history,      \* FileRenamer.history
    plan,         \* the preview_results the caller holds
    call,         \* the step taken last, with its arguments
    resolved,     \* log of the calls of the conflict resolver made directly
    steps,        \* number of steps taken
    ext_count     \* number of changes made by the external actor

vars == <<os_name, now, fs, writable, persisted, history, plan, call, resolved,
          steps, ext_count>>

(***************************************************************************)
(* The directory and the files in it.  The content of a file decides what  *)
(* its reader extracts: a title, a reported failure, or a result on which  *)
(* planning raises.                                                        *)
(***************************************************************************)
NameA == <<"a", ".", "d", "o", "c", "x">>
NameB == <<"b", ".", "d", "o", "c", "x">>
NameC == <<"c", ".", "p", "d", "f">>
Names == {NameA, NameB, NameC}

Content(id, kind, title) == [id |-> id, kind |-> kind, title |-> title]

\* what c.pdf may hold
ContentsOfC ==
    { Content("c", "ok", <<"A">>),
      Content("c", "fail", <<>>),
      Content("c", "raise", <<>>) }

\* a directory where the name planned for title "A" in the first minute and
\* all its numbered variants are taken
TakenTarget == generate_new_filename(<<"A">>, NameA, generate_timestamp(0))

\* the paths of the target and of its variants with the counters in 1..n
TakenPaths(n) ==
    {PathStr(TakenTarget)} \cup
    {BaseDir \o Candidate(Str(Stem(TakenTarget)), c, Str(Suffix(TakenTarget))) :
        c \in 1..n}

\* a directory with a.docx and b.docx, whose titles differ only in a
\* trailing space, c.pdf, and files at the paths taken
Directory(cc, taken) ==
    [p \in {PathStr(n) : n \in Names} \cup taken |->
        IF p = PathStr(NameA) THEN Content("a", "ok", <<"A">>)
        ELSE IF p = PathStr(NameB) THEN Content("b", "ok", <<"A", " ">>)
        ELSE IF p = PathStr(NameC) THEN cc
        ELSE Content("t", "fail", <<>>)]

(***************************************************************************)
(* file_readers.py: the reader of a file type, as far as the engine sees   *)
(* it.  read_file never raises; a file that is missing or unreadable is a  *)
(* reported failure.                                                       *)
(***************************************************************************)
get_file_reader(file_type) ==
    IF file_type \in {"word", "excel", "powerpoint", "pdf", "csv"}
    THEN file_type ELSE None

read_file(files, file_path) ==
    IF ~Exists(files, PathStr(file_path)) \/ files[PathStr(file_path)].kind = "fail"
    THEN [success |-> FALSE, title |-> <<>>, error |-> "Erro ao ler arquivo",
          raises |-> FALSE]
    ELSE [success |-> TRUE, title |-> files[PathStr(file_path)].title, error |-> "",
          raises |-> files[PathStr(file_path)].kind = "raise"]

(***************************************************************************)
(* FileRenamer.preview_rename                                              *)
(***************************************************************************)
ErrorEntry(file_path, error) ==
    [original_path |-> PathStr(file_path), original_name |-> Str(file_path),
     new_name |-> "", new_path |-> "", status |-> "error", error |-> error]

ReadyEntry(file_path, final_name) ==
    [original_path |-> PathStr(file_path), original_name |-> Str(file_path),
     new_name |-> final_name, new_path |-> BaseDir \o final_name,
     status |-> "ready", error |-> ""]

\* as preview_one, an exception while planning swallowed without an entry
preview_one_silent(files, file_path, file_types, timestamp, t) ==
    LET file_type   == get_file_type_from_extension(Suffix(file_path))
        read_result == read_file(files, file_path)
        target_path == generate_new_filename(read_result.title, file_path, timestamp)
    IN  IF file_type \notin file_types THEN <<>>
        ELSE IF ~read_result.success
             THEN <<ErrorEntry(file_path, read_result.error)>>
        ELSE IF read_result.raises THEN <<>>
        ELSE <<ReadyEntry(file_path, resolve_name_conflict(files, target_path, t))>>

\* as preview_one, a file of a type that is not selected reported as an error
preview_one_noskip(files, file_path, file_types, timestamp, t) ==
    LET file_type   == get_file_type_from_extension(Suffix(file_path))
        read_result == read_file(files, file_path)
        target_path == generate_new_filename(read_result.title, file_path, timestamp)
    IN  IF file_type \notin file_types
        THEN <<ErrorEntry(file_path, "Tipo nao selecionado")>>
        ELSE IF ~read_result.success
             THEN <<ErrorEntry(file_path, read_result.error)>>
        ELSE IF read_result.raises
             THEN <<ErrorEntry(file_path, "Exception")>>
        ELSE <<ReadyEntry(file_path, resolve_name_conflict(files, target_path, t))>>

\* as preview_one, the timestamp read from the clock again for the file
preview_one_rederive(files, file_path, file_types, timestamp, t) ==
    LET file_type   == get_file_type_from_extension(Suffix(file_path))
        read_result == read_file(files, file_path)
        target_path == generate_new_filename(read_result.title, file_path,
                                             generate_timestamp(t))
    IN  IF file_type \notin file_types THEN <<>>
        ELSE IF ~read_result.success
             THEN <<ErrorEntry(file_path, read_result.error)>>
        ELSE IF read_result.raises
             THEN <<ErrorEntry(file_path, "Exception")>>
        ELSE <<ReadyEntry(file_path, resolve_name_conflict(files, target_path, t))>>

\* the entries one input path adds to preview_results: none, or one
preview_one(files, file_path, file_types, timestamp, t) ==
    LET file_type   == get_file_type_from_extension(Suffix(file_path))
        reader      == get_file_reader(file_type)
        read_result == read_file(files, file_path)
        target_path == generate_new_filename(read_result.title, file_path, timestamp)
        final_name  == resolve_name_conflict(files, target_path, t)
    IN  IF file_type \notin file_types THEN <<>>
        ELSE IF reader = None
             THEN <<ErrorEntry(file_path, "Leitor nao disponivel para tipo")>>
        ELSE IF ~read_result.success
             THEN <<ErrorEntry(file_path, read_result.error)>>
        ELSE IF read_result.raises
             THEN <<ErrorEntry(file_path, "Exception")>>
        ELSE <<ReadyEntry(file_path, final_name)>>

\* timestamp is taken from the clock once, before the loop; t is the instant
\* at which the conflict resolver reads the clock
RECURSIVE preview_loop(_, _, _, _, _)
preview_loop(files, file_paths, file_types, timestamp, t) ==
    IF file_paths = <<>> THEN <<>>
    ELSE preview_one(files, Head(file_paths), file_types, timestamp, t)
             \o preview_loop(files, Tail(file_paths), file_types, timestamp, t)

preview_rename(files, file_paths, file_types, t0, t) ==
    preview_loop(files, file_paths, file_types, generate_timestamp(t0), t)

(***************************************************************************)
(* The history and its file.  json.dump writes a dict as an object, a list *)
(* as an array, a str as a string, an int as a number and None as null;    *)
(* json.load reads them back.                                              *)
(***************************************************************************)
JNull      == <<"null">>
JString(s) == <<"string", s>>
JNumber(n) == <<"number", n>>
JArray(a)  == <<"array", a>>
JObject(o) == <<"object", o>>

DumpRename(r) ==
    JObject([original_path |-> JString(r.original_path),
             new_path      |-> JString(r.new_path),
             original_name |-> JString(r.original_name),
             new_name      |-> JString(r.new_name),
             timestamp     |-> JString(r.timestamp)])

DumpFailed(f) == JObject([file |-> JString(f.file), error |-> JString(f.error)])

DumpOperation(op) ==
    JObject([operation_id       |-> JString(op.operation_id),
             timestamp          |-> JString(op.timestamp),
             successful_renames |->
                 JArray([i \in 1..Len(op.successful_renames) |->
                            DumpRename(op.successful_renames[i])]),
             failed_renames     |->
                 JArray([i \in 1..Len(op.failed_renames) |->
                            DumpFailed(op.failed_renames[i])]),
             total_files        |-> JNumber(op.total_files),
             successful_count   |-> JNumber(op.successful_count),
             failed_count       |-> JNumber(op.failed_count)])

\* json.dump(self.history, f, ...)
json_dump(h) ==
    JObject([operations     |-> JArray([i \in 1..Len(h.operations) |->
                                           DumpOperation(h.operations[i])]),
             created_at     |-> JString(h.created_at),
             last_operation |-> IF h.last_operation = None THEN JNull
                                ELSE JString(h.last_operation)])

LoadRename(j) ==
    [original_path |-> j[2].original_path[2],
     new_path      |-> j[2].new_path[2],
     original_name |-> j[2].original_name[2],
     new_name      |-> j[2].new_name[2],
     timestamp     |-> j[2].timestamp[2]]

LoadFailed(j) == [file |-> j[2].file[2], error |-> j[2].error[2]]

LoadOperation(j) ==
    [operation_id       |-> j[2].operation_id[2],
     timestamp          |-> j[2].timestamp[2],
     successful_renames |-> [i \in 1..Len(j[2].successful_renames[2]) |->
                                LoadRename(j[2].successful_renames[2][i])],
     failed_renames     |-> [i \in 1..Len(j[2].failed_renames[2]) |->
                                LoadFailed(j[2].failed_renames[2][i])],
     total_files        |-> j[2].total_files[2],
     successful_count   |-> j[2].successful_count[2],
     failed_count       |-> j[2].failed_count[2]]

\* as json_load, last_operation not read back
json_load_nolast(j) ==
    [operations     |-> [i \in 1..Len(j[2].operations[2]) |->
                            LoadOperation(j[2].operations[2][i])],
     created_at     |-> j[2].created_at[2],
     last_operation |-> None]

\* json.load(f)
json_load(j) ==
    [operations     |-> [i \in 1..Len(j[2].operations[2]) |->
                            LoadOperation(j[2].operations[2][i])],
     created_at     |-> j[2].created_at[2],
     last_operation |-> IF j[2].last_operation = JNull THEN None
                        ELSE j[2].last_operation[2]]

\* the history file: absent, holding a JSON document, or holding the
\* beginning of one (a write that failed after the file was truncated), on
\* which open() or json.load raises
Absent    == <<"absent">>
Corrupt   == <<"corrupt">>
Stored(j) == <<"json", j>>

\* as load_history, a file that cannot be read yielding no created_at
load_history_nodate(file, t) ==
    IF file # Absent /\ file # Corrupt
    THEN json_load(file[2])
    ELSE [operations |-> <<>>,
          created_at |-> IF file = Corrupt THEN None ELSE isoformat(t),
          last_operation |-> None]

\* _load_history at instant t
load_history(file, t) ==
    IF file # Absent /\ file # Corrupt
    THEN json_load(file[2])
    ELSE [operations |-> <<>>, created_at |-> isoformat(t), last_operation |-> None]

\* the outcomes of the write in _save_history: written; open() raised and
\* the file is as before; json.dump raised after open() truncated the file
SaveOutcomes == {"written", "open_failed", "dump_failed"}

\* as save_history, nothing written
save_history_noop(file, h, outcome) == file

\* _save_history: the file afterwards.  Nothing is raised to the caller.
save_history(file, h, outcome) ==
    IF outcome = "written" THEN Stored(json_dump(h))
    ELSE IF outcome = "open_failed" THEN file
    ELSE Corrupt

(***************************************************************************)
(* The filesystem calls.                                                   *)
(***************************************************************************)
\* Path.rename(target) raises: PermissionError in a directory that is not
\* writable; FileExistsError on Windows when the target exists
rename_raises(files, src, dst) ==
    \/ ~writable
    \/ os_name = "nt" /\ dst \in DOMAIN files /\ dst # src

\* Path.rename(target) when it does not raise: on Unix a file that exists at
\* the target is replaced silently
rename(files, src, dst) ==
    [p \in (DOMAIN files \ {src}) \cup {dst} |->
        IF p = dst THEN files[src] ELSE files[p]]

(***************************************************************************)
(* FileRenamer.execute_rename                                              *)
(***************************************************************************)
Failure(file, error) == [file |-> file, error |-> error]

RenameRecord(item, t) ==
    [original_path |-> item.original_path, new_path |-> item.new_path,
     original_name |-> item.original_name, new_name |-> item.new_name,
     timestamp |-> isoformat(t)]

\* as execute_one, a file that is missing skipped without a failure entry
execute_one_skip(item, acc, t) ==
    IF item.status # "ready"
    THEN [acc EXCEPT !.failed = Append(@, Failure(item.original_name, item.error))]
    ELSE IF item.original_path \notin DOMAIN acc.files
    THEN acc
    ELSE IF ~writable
    THEN [acc EXCEPT !.failed =
              Append(@, Failure(item.original_name,
                                "Sem permissao de escrita no diretorio"))]
    ELSE IF rename_raises(acc.files, item.original_path, item.new_path)
    THEN [acc EXCEPT !.failed = Append(@, Failure(item.original_name, "OSError"))]
    ELSE [acc EXCEPT !.files = rename(@, item.original_path, item.new_path),
                     !.successful = Append(@, RenameRecord(item, t))]

\* as execute_one, the original not looked up before the rename, which then
\* raises for a file that is missing
execute_one_unchecked(item, acc, t) ==
    IF item.status # "ready"
    THEN [acc EXCEPT !.failed = Append(@, Failure(item.original_name, item.error))]
    ELSE IF ~writable
    THEN [acc EXCEPT !.failed =
              Append(@, Failure(item.original_name,
                                "Sem permissao de escrita no diretorio"))]
    ELSE IF \/ item.original_path \notin DOMAIN acc.files
            \/ rename_raises(acc.files, item.original_path, item.new_path)
    THEN [acc EXCEPT !.failed = Append(@, Failure(item.original_name, "OSError"))]
    ELSE [acc EXCEPT !.files = rename(@, item.original_path, item.new_path),
                     !.successful = Append(@, RenameRecord(item, t))]

\* one pass of the loop over preview_results; acc holds the filesystem and
\* the two lists so far
execute_one(item, acc, t) ==
    IF item.status # "ready"
    THEN [acc EXCEPT !.failed = Append(@, Failure(item.original_name, item.error))]
    ELSE IF item.original_path \notin DOMAIN acc.files
    THEN [acc EXCEPT !.failed =
              Append(@, Failure(item.original_name, "Arquivo nao encontrado"))]
    ELSE IF ~writable
    THEN [acc EXCEPT !.failed =
              Append(@, Failure(item.original_name,
                                "Sem permissao de escrita no diretorio"))]
    ELSE IF rename_raises(acc.files, item.original_path, item.new_path)
    THEN [acc EXCEPT !.failed = Append(@, Failure(item.original_name, "OSError"))]
    ELSE [acc EXCEPT !.files = rename(@, item.original_path, item.new_path),
                     !.successful = Append(@, RenameRecord(item, t))]

\* as execute_loop, the loop left at the first entry that fails
RECURSIVE execute_loop_abort(_, _, _)
execute_loop_abort(items, acc, t) ==
    IF items = <<>> \/ acc.failed # <<>> THEN acc
    ELSE execute_loop_abort(Tail(items), execute_one(Head(items), acc, t), t)

RECURSIVE execute_loop(_, _, _)
execute_loop(items, acc, t) ==
    IF items = <<>> THEN acc
    ELSE execute_loop(Tail(items), execute_one(Head(items), acc, t), t)

\* as OperationRecord, total_files counting the renamed files only
OperationRecord_miscount(operation_id, t, preview_results, successful_renames, failed_renames) ==
    [operation_id       |-> operation_id,
     timestamp          |-> isoformat(t),
     successful_renames |-> successful_renames,
     failed_renames     |-> failed_renames,
     total_files        |-> Len(successful_renames),
     successful_count   |-> Len(successful_renames),
     failed_count       |-> Len(failed_renames)]

OperationRecord(operation_id, t, preview_results, successful_renames, failed_renames) ==
    [operation_id       |-> operation_id,
     timestamp          |-> isoformat(t),
     successful_renames |-> successful_renames,
     failed_renames     |-> failed_renames,
     total_files        |-> Len(preview_results),
     successful_count   |-> Len(successful_renames),
     failed_count       |-> Len(failed_renames)]

\* as append_operation, the list replaced by the new record
append_operation_replace(h, operation_record) ==
    [h EXCEPT !.operations = <<operation_record>>,
              !.last_operation = operation_record.operation_id]

\* as append_operation, the record left out of the in-memory history
append_operation_skip(h, operation_record) == h

\* as append_operation, last_operation left as it is
append_operation_nolast(h, operation_record) ==
    [h EXCEPT !.operations = Append(@, operation_record)]

\* self.history['operations'].append(operation_record)
\* self.history['last_operation'] = operation_id
append_operation(h, operation_record) ==
    [h EXCEPT !.operations = Append(@, operation_record),
              !.last_operation = operation_record.operation_id]

(***************************************************************************)
(* FileRenamer.revert_operation                                            *)
(***************************************************************************)
\* as find_operation, the first operation taken when none has the id
find_operation_any(h, operation_id) ==
    LET hits == {i \in 1..Len(h.operations) :
                    h.operations[i].operation_id = operation_id}
    IN  IF hits # {} THEN Min(hits)
        ELSE IF h.operations # <<>> THEN 1 ELSE 0

\* the position of the first operation of the history with the id, 0 when
\* there is none
find_operation(h, operation_id) ==
    LET hits == {i \in 1..Len(h.operations) :
                    h.operations[i].operation_id = operation_id}
    IN  IF hits = {} THEN 0 ELSE Min(hits)

revert_one(rename_info, acc) ==
    IF rename_info.new_path \in DOMAIN acc.files
    THEN IF rename_raises(acc.files, rename_info.new_path, rename_info.original_path)
         THEN [acc EXCEPT !.failed_reverts =
                   Append(@, Failure(rename_info.new_name, "OSError"))]
         ELSE [acc EXCEPT !.files = rename(@, rename_info.new_path,
                                           rename_info.original_path),
                          !.reverted_count = @ + 1]
    ELSE [acc EXCEPT !.failed_reverts =
              Append(@, Failure(rename_info.new_name,
                                "Arquivo renomeado nao encontrado"))]

\* as revert_loop, the loop left at the first record that fails
RECURSIVE revert_loop_abort(_, _)
revert_loop_abort(renames, acc) ==
    IF renames = <<>> \/ acc.failed_reverts # <<>> THEN acc
    ELSE revert_loop_abort(Tail(renames), revert_one(Head(renames), acc))

RECURSIVE revert_loop(_, _)
revert_loop(renames, acc) ==
    IF renames = <<>> THEN acc
    ELSE revert_loop(Tail(renames), revert_one(Head(renames), acc))

(***************************************************************************)
(* The state machine.                                                      *)
(***************************************************************************)
\* the instants the clock can show at or after instant t
Later(t) == {u \in Instants : u >= t}

Init ==
    /\ os_name \in {"posix", "nt"}
    /\ now = 0
    /\ fs \in {Directory(cc, {}) : cc \in ContentsOfC}
    /\ writable = TRUE
    /\ persisted = Absent
    /\ history = load_history(Absent, 0)
    /\ plan = <<>>
    /\ call = [op |-> "init"]
    /\ resolved = <<>>
    /\ steps = 0
    /\ ext_count = 0

\* every step of the engine or of its environment counts against MaxSteps
Counted ==
    /\ steps < MaxSteps
    /\ steps' = steps + 1

\* FileRenamer(base_directory): the caller makes a new engine on the directory
Construct ==
    /\ Counted
    /\ history' = load_history(persisted, now)
    /\ call' = [op |-> "construct"]
    /\ UNCHANGED <<os_name, now, fs, writable, persisted, plan, resolved, ext_count>>

\* the lists of paths and of types a caller passes
InputLists == {<<NameA, NameB>>, <<NameC, NameA>>, <<NameA, NameB, NameC>>}
TypeLists == {{"word"}, {"word", "pdf"}}

\* as Preview, a file made at every planned path
Preview_touch ==
    /\ Counted
    /\ \E file_paths \in InputLists, file_types \in TypeLists, t \in Later(now) :
        LET planned == preview_rename(fs, file_paths, file_types, t, t)
            made == {planned[i].new_path :
                        i \in {j \in 1..Len(planned) : planned[j].status = "ready"}}
        IN  /\ plan' = planned
            /\ fs' = [p \in DOMAIN fs \cup made |->
                         IF p \in DOMAIN fs THEN fs[p] ELSE Content("t", "fail", <<>>)]
            /\ now' = t
            /\ call' = [op |-> "preview", file_paths |-> file_paths,
                        file_types |-> file_types, t |-> t]
    /\ UNCHANGED <<os_name, writable, persisted, history, resolved, ext_count>>

\* preview_rename(file_paths, file_types), called at instant t
Preview ==
    /\ Counted
    /\ \E file_paths \in InputLists, file_types \in TypeLists, t \in Later(now) :
        /\ plan' = preview_rename(fs, file_paths, file_types, t, t)
        /\ now' = t
        /\ call' = [op |-> "preview", file_paths |-> file_paths,
                    file_types |-> file_types, t |-> t]
    /\ UNCHANGED <<os_name, fs, writable, persisted, history, resolved, ext_count>>

\* execute_rename(plan), called at instant t
Execute ==
    /\ Counted
    /\ \E t \in Later(now), outcome \in SaveOutcomes :
        LET operation_id == isoformat(t)
            done == execute_loop(plan,
                                 [files |-> fs, successful |-> <<>>, failed |-> <<>>],
                                 t)
            record == OperationRecord(operation_id, t, plan,
                                      done.successful, done.failed)
            h == append_operation(history, record)
        IN  /\ fs' = done.files
            /\ history' = h
            /\ persisted' = save_history(persisted, h, outcome)
            /\ now' = t
            /\ call' = [op |-> "execute", operation_id |-> operation_id,
                        saves |-> <<outcome>>, before |-> fs,
                        result |-> [operation_id |-> operation_id,
                                    total_files |-> Len(plan),
                                    successful |-> Len(done.successful),
                                    failed |-> Len(done.failed),
                                    successful_renames |-> done.successful,
                                    failed_renames |-> done.failed]]
    /\ UNCHANGED <<os_name, writable, plan, resolved, ext_count>>

\* the ids a caller asks to revert: those of the history and one that is not
RevertIds ==
    {history.operations[i].operation_id : i \in 1..Len(history.operations)}
        \cup {"unknown"}

\* revert_operation(operation_id); the call notes whether it comes right
\* after the execute_rename that made the operation, and the directory as it
\* was before that
Revert ==
    /\ Counted
    /\ \E operation_id \in RevertIds :
        LET found == find_operation(history, operation_id)
            done == revert_loop(history.operations[found].successful_renames,
                                [files |-> fs, reverted_count |-> 0,
                                 failed_reverts |-> <<>>])
            follows == call.op = "execute" /\ call.operation_id = operation_id
        IN  /\ IF found = 0
               THEN /\ call' = [op |-> "revert", operation_id |-> operation_id,
                                success |-> FALSE,
                                error |-> "Operacao nao encontrada", saves |-> <<>>,
                                follows |-> FALSE, before |-> fs]
                    /\ UNCHANGED fs
               ELSE /\ call' = [op |-> "revert", operation_id |-> operation_id,
                                success |-> TRUE,
                                reverted_count |-> done.reverted_count,
                                failed_reverts |-> done.failed_reverts,
                                total_to_revert |->
                                    Len(history.operations[found].successful_renames),
                                saves |-> <<>>,
                                follows |-> follows,
                                before |-> IF follows THEN call.before ELSE fs]
                    /\ fs' = done.files
    /\ UNCHANGED <<os_name, now, writable, persisted, history, plan,
                   resolved, ext_count>>

\* the paths the external actor touches: the three files and the planned names
ExternalPaths ==
    {PathStr(n) : n \in Names}
        \cup {plan[i].new_path : i \in {j \in 1..Len(plan) : plan[j].status = "ready"}}

ExternalDelete ==
    /\ Counted
    /\ ext_count < MaxExternal
    /\ \E p \in ExternalPaths \cap DOMAIN fs :
        /\ fs' = [q \in DOMAIN fs \ {p} |-> fs[q]]
        /\ call' = [op |-> "delete", path |-> p]
    /\ ext_count' = ext_count + 1
    /\ UNCHANGED <<os_name, now, writable, persisted, history, plan, resolved>>

ExternalCreate ==
    /\ Counted
    /\ ext_count < MaxExternal
    /\ \E p \in ExternalPaths \ DOMAIN fs :
        /\ fs' = [q \in DOMAIN fs \cup {p} |->
                     IF q = p THEN Content("x", "ok", <<"B", "?">>) ELSE fs[q]]
        /\ call' = [op |-> "create", path |-> p]
    /\ ext_count' = ext_count + 1
    /\ UNCHANGED <<os_name, now, writable, persisted, history, plan, resolved>>

ExternalChmod ==
    /\ Counted
    /\ ext_count < MaxExternal
    /\ writable' = ~writable
    /\ ext_count' = ext_count + 1
    /\ call' = [op |-> "chmod"]
    /\ UNCHANGED <<os_name, now, fs, persisted, history, plan, resolved>>

\* one step of the engine and its environment
Next ==
    \/ Construct
    \/ Preview
    \/ Execute
    \/ Revert
    \/ ExternalDelete
    \/ ExternalCreate
    \/ ExternalChmod

Spec == Init /\ [][Next]_vars

(***************************************************************************)
(* The conflict resolver on its own: _resolve_name_conflict is applied to  *)
(* a target in directories where the target is free, taken, taken with     *)
(* some or with all of its numbered variants; between two applications a   *)
(* file may appear at a path that was returned.                            *)
(***************************************************************************)
\* the path of the variant of the taken target with counter c
TakenVariant(c) ==
    BaseDir \o Candidate(Str(Stem(TakenTarget)), c, Str(Suffix(TakenTarget)))

ResolveDirectories ==
    {Directory(Content("c", "ok", <<"A">>), taken) :
        taken \in {{}, TakenPaths(0), TakenPaths(2), TakenPaths(2) \ {TakenVariant(1)},
                   TakenPaths(MaxCounter - 1), TakenPaths(MaxCounter)}}

\* the names the resolver is asked about: the taken target and another
ResolveTargets ==
    {TakenTarget, generate_new_filename(<<"B", "?">>, NameA, generate_timestamp(0))}

InitResolve ==
    /\ os_name = "posix"
    /\ now = 0
    /\ fs \in ResolveDirectories
    /\ writable = TRUE
    /\ persisted = Absent
    /\ history = load_history(Absent, 0)
    /\ plan = <<>>
    /\ call = [op |-> "init"]
    /\ resolved = <<>>
    /\ steps = 0
    /\ ext_count = 0

\* whether the target and its variants with all the counters exist
Exhausted(files, target_path) ==
    /\ PathStr(target_path) \in DOMAIN files
    /\ \A c \in 1..MaxCounter :
          BaseDir \o Candidate(Str(Stem(target_path)), c, Str(Suffix(target_path)))
              \in DOMAIN files

\* _resolve_name_conflict(target_path), called at instant t; the log keeps
\* what was asked, what was returned and what existed then
Resolve ==
    /\ Len(resolved) < MaxResolved
    /\ \E target_path \in ResolveTargets, t \in Later(now) :
        LET path == BaseDir \o resolve_name_conflict(fs, target_path, t)
        IN  /\ resolved' = Append(resolved,
                                  [event |-> "resolve",
                                   target |-> PathStr(target_path),
                                   path |-> path,
                                   target_existed |-> PathStr(target_path) \in DOMAIN fs,
                                   path_existed |-> path \in DOMAIN fs,
                                   exhausted |-> Exhausted(fs, target_path)])
            /\ now' = t
            /\ call' = [op |-> "resolve"]
    /\ UNCHANGED <<os_name, fs, writable, persisted, history, plan, steps, ext_count>>

\* a file appears at a path the resolver returned
TakeName ==
    /\ Len(resolved) < MaxResolved
    /\ \E i \in 1..Len(resolved) :
        /\ resolved[i].event = "resolve"
        /\ resolved[i].path \notin DOMAIN fs
        /\ fs' = [q \in DOMAIN fs \cup {resolved[i].path} |->
                     IF q = resolved[i].path THEN Content("t", "fail", <<>>)
                     ELSE fs[q]]
        /\ resolved' = Append(resolved, [event |-> "create", path |-> resolved[i].path])
    /\ call' = [op |-> "create"]
    /\ UNCHANGED <<os_name, now, writable, persisted, history, plan, steps, ext_count>>

NextResolve ==
    \/ Resolve
    \/ TakeName

SpecResolve == InitResolve /\ [][NextResolve]_vars

(***************************************************************************)
(* Reverting on its own: an engine has planned and executed the renaming   *)
(* of the three files; the directory may then be changed from outside      *)
(* before the operation is reverted.                                       *)
(***************************************************************************)
InitExecuted ==
    /\ os_name \in {"posix", "nt"}
    /\ now = 0
    /\ writable = TRUE
    /\ steps = 0
    /\ ext_count = 0
    /\ resolved = <<>>
    /\ call = [op |-> "init"]
    /\ \E cc \in ContentsOfC :
        LET dir    == Directory(cc, {})
            p      == preview_rename(dir, <<NameA, NameB, NameC>>, {"word", "pdf"}, 0, 0)
            done   == execute_loop(p, [files |-> dir, successful |-> <<>>,
                                       failed |-> <<>>], 0)
            record == OperationRecord(isoformat(0), 0, p, done.successful, done.failed)
            h      == append_operation(load_history(Absent, 0), record)
        IN  /\ plan = p
            /\ fs = done.files
            /\ history = h
            /\ persisted = save_history(Absent, h, "written")

NextRevert ==
    \/ Revert
    \/ ExternalDelete
    \/ ExternalCreate
    \/ ExternalChmod

SpecRevert == InitExecuted /\ [][NextRevert]_vars

(***************************************************************************)
(* The synthesis of names on its own: _generate_new_filename is applied to *)
(* titles that are empty, blank, all punctuation, or too long, and to     *)
(* original names with and without an extension.                          *)
(***************************************************************************)
\* the length up to which every title over TitleChars is tried
MaxTitle == 3

TitleChars == {"A", " ", "?", ".", "\n", "_"}

\* n times the characters of word, cut to n characters
Repeated(word, n) == [i \in 1..n |-> word[((i - 1) % Len(word)) + 1]]

LongTitles ==
    {Repeated(<<"A">>, MaxTitleLength), Repeated(<<"A">>, MaxTitleLength + 1),
     Repeated(<<"A">>, MaxTitleLength + 20),
     Repeated(<<"A", "A", "A", " ">>, MaxTitleLength + 20),
     Repeated(<<"A", ".", " ">>, MaxTitleLength + 2),
     Repeated(<<"?">>, MaxTitleLength + 20),
     Repeated(<<" ">>, MaxTitleLength + 20)}

Titles ==
    UNION {[1..k -> TitleChars] : k \in 0..MaxTitle} \cup LongTitles

OriginalNames ==
    {NameA, <<"B", ".", "P", "D", "F">>, <<"n", "o", "e", "x", "t">>,
     <<"x", ".", "t", "a", "r", ".", "g", "z">>, <<".", "h", "i", "d">>}

InitNames ==
    /\ os_name = "posix"
    /\ now = 0
    /\ fs = Directory(Content("c", "ok", <<"A">>), {})
    /\ writable = TRUE
    /\ persisted = Absent
    /\ history = load_history(Absent, 0)
    /\ plan = <<>>
    /\ call = [op |-> "init"]
    /\ resolved = <<>>
    /\ steps = 0
    /\ ext_count = 0

\* _generate_new_filename(title, original_path, timestamp), the timestamp
\* read from the clock at instant t
Synthesize ==
    /\ call.op = "init"
    /\ \E title \in Titles, original_path \in OriginalNames, t \in Instants :
        /\ call' = [op |-> "generate", title |-> title,
                    original_path |-> original_path,
                    timestamp |-> generate_timestamp(t),
                    new_name |-> generate_new_filename(title, original_path,
                                                       generate_timestamp(t))]
        /\ now' = t
    /\ UNCHANGED <<os_name, fs, writable, persisted, history, plan, resolved, steps,
                   ext_count>>

NextNames ==
    \/ Synthesize

SpecNames == InitNames /\ [][NextNames]_vars

(***************************************************************************)
(* Planning on its own, file by file: preview_rename reads the timestamp   *)
(* when it is entered, then handles one path of the list after the other   *)
(* while the clock runs on.  The directory may hold files at the planned   *)
(* name and at its first numbered variants.                                *)
(***************************************************************************)
\* the number of numbered variants of the planned name that may be taken
MaxTaken == 2

PlanDirectories ==
    {Directory(cc, taken) :
        cc \in ContentsOfC,
        taken \in {{}} \cup {TakenPaths(n) : n \in 0..MaxTaken}}

InitPlan ==
    /\ os_name = "posix"
    /\ now = 0
    /\ fs \in PlanDirectories
    /\ writable = TRUE
    /\ persisted = Absent
    /\ history = load_history(Absent, 0)
    /\ plan = <<>>
    /\ call = [op |-> "init"]
    /\ resolved = <<>>
    /\ steps = 0
    /\ ext_count = 0

\* preview_rename(file_paths, file_types) entered at instant t: the timestamp
\* is read and preview_results is empty
PlanStart ==
    /\ call.op = "init"
    /\ \E file_paths \in InputLists, file_types \in TypeLists, t \in Later(now) :
        /\ call' = [op |-> "planning", file_paths |-> file_paths,
                    file_types |-> file_types, started |-> t,
                    timestamp |-> generate_timestamp(t), at |-> <<>>]
        /\ now' = t
    /\ plan' = <<>>
    /\ UNCHANGED <<os_name, fs, writable, persisted, history, resolved, steps,
                   ext_count>>

\* one pass of the loop over file_paths, at instant t; the call notes the
\* instant of each pass
PlanFile ==
    /\ call.op = "planning"
    /\ Len(call.at) < Len(call.file_paths)
    /\ \E t \in Later(now) :
        /\ plan' = plan \o preview_one(fs, call.file_paths[Len(call.at) + 1],
                                       call.file_types, call.timestamp, t)
        /\ call' = [call EXCEPT !.at = Append(@, t)]
        /\ now' = t
    /\ UNCHANGED <<os_name, fs, writable, persisted, history, resolved, steps,
                   ext_count>>

\* the loop is over: preview_results is returned
PlanReturn ==
    /\ call.op = "planning"
    /\ Len(call.at) = Len(call.file_paths)
    /\ call' = [call EXCEPT !.op = "preview"]
    /\ UNCHANGED <<os_name, now, fs, writable, persisted, history, plan, resolved,
                   steps, ext_count>>

NextPlan ==
    \/ PlanStart
    \/ PlanFile
    \/ PlanReturn

SpecPlan == InitPlan /\ [][NextPlan]_vars

(***************************************************************************)
(* The loop of the conflict resolver, pass by pass: the counter is part of *)
(* the state.  Besides the directories of the resolver there is one where  *)
(* the names with the precise timestamps are taken as well.  A call that   *)
(* has been entered goes on running.                                       *)
(***************************************************************************)
LoopDirectories ==
    ResolveDirectories \cup
    {Directory(Content("c", "ok", <<"A">>),
               TakenPaths(MaxCounter)
                   \cup {BaseDir \o Fallback(Str(Stem(TakenTarget)),
                                             Str(Suffix(TakenTarget)), t) :
                            t \in Instants})}

InitLoop ==
    /\ os_name = "posix"
    /\ now = 0
    /\ fs \in LoopDirectories
    /\ writable = TRUE
    /\ persisted = Absent
    /\ history = load_history(Absent, 0)
    /\ plan = <<>>
    /\ call = [op |-> "init"]
    /\ resolved = <<>>
    /\ steps = 0
    /\ ext_count = 0

\* _resolve_name_conflict(target_path) is entered: a target that does not
\* exist is returned, otherwise the stem and the suffix are taken and the
\* counter is set to 1
LoopEnter ==
    /\ call.op = "init"
    /\ \E target_path \in ResolveTargets :
        call' = [op |-> IF ~Exists(fs, PathStr(target_path))
                        THEN "returned" ELSE "resolving",
                 target_path |-> target_path,
                 base_name |-> Str(Stem(target_path)),
                 extension |-> Str(Suffix(target_path)),
                 name |-> IF ~Exists(fs, PathStr(target_path))
                          THEN Str(target_path) ELSE "",
                 counter |-> 1]
    /\ UNCHANGED <<os_name, now, fs, writable, persisted, history, plan, resolved,
                   steps, ext_count>>

\* one pass of the loop; the clock is read when the counter passes the limit
LoopPass ==
    /\ call.op = "resolving"
    /\ \E t \in (IF call.counter + 1 > MaxCounter THEN Later(now) ELSE {now}) :
        LET pass == loop_pass(fs, call.base_name, call.extension, call.counter, t)
        IN  /\ call' = [call EXCEPT !.op = IF pass.returned THEN "returned"
                                           ELSE "resolving",
                                    !.name = pass.name,
                                    !.counter = pass.counter]
            /\ now' = t
    /\ UNCHANGED <<os_name, fs, writable, persisted, history, plan, resolved,
                   steps, ext_count>>

NextLoop ==
    \/ LoopEnter
    \/ LoopPass

SpecLoop == InitLoop /\ [][NextLoop]_vars /\ WF_vars(LoopPass)

(***************************************************************************)
(* The conflict resolver applied a second time, the directory left as it   *)
(* is: to the same target, or to the path it has returned.                 *)
(***************************************************************************)
InitAgain ==
    /\ os_name = "posix"
    /\ now = 0
    /\ fs \in LoopDirectories
    /\ writable = TRUE
    /\ persisted = Absent
    /\ history = load_history(Absent, 0)
    /\ plan = <<>>
    /\ call = [op |-> "init"]
    /\ resolved = <<>>
    /\ steps = 0
    /\ ext_count = 0

\* the names _resolve_name_conflict can return for the targets, as sequences
\* of characters
ReturnableNames ==
    UNION {{target_path}
             \cup {Stem(target_path) \o <<"_">> \o Pad3(c) \o Suffix(target_path) :
                      c \in 1..MaxCounter}
             \cup {Stem(target_path) \o <<"_">> \o precise_timestamp(t)
                       \o Suffix(target_path) : t \in Instants} :
           target_path \in ResolveTargets}

\* the characters of a name that was returned
NameOf(name) == CHOOSE n \in ReturnableNames : Str(n) = name

\* _resolve_name_conflict(target_path), called at instant t
ResolveFirst ==
    /\ call.op = "init"
    /\ \E target_path \in ResolveTargets, t \in Later(now) :
        /\ call' = [op |-> "resolve", target_path |-> target_path,
                    name |-> resolve_name_conflict(fs, target_path, t)]
        /\ now' = t
    /\ UNCHANGED <<os_name, fs, writable, persisted, history, plan, resolved, steps,
                   ext_count>>

\* the same call made again, at instant t; the call notes what the first
\* call returned
ResolveSame ==
    /\ call.op = "resolve"
    /\ \E t \in Later(now) :
        /\ call' = [op |-> "same", target_path |-> call.target_path,
                    first |-> call.name,
                    name |-> resolve_name_conflict(fs, call.target_path, t)]
        /\ now' = t
    /\ UNCHANGED <<os_name, fs, writable, persisted, history, plan, resolved, steps,
                   ext_count>>

\* _resolve_name_conflict called on the path that was returned, at instant t
ResolveReturned ==
    /\ call.op = "resolve"
    /\ \E t \in Later(now) :
        /\ call' = [op |-> "returned", target_path |-> call.target_path,
                    first |-> call.name,
                    name |-> resolve_name_conflict(fs, NameOf(call.name), t)]
        /\ now' = t
    /\ UNCHANGED <<os_name, fs, writable, persisted, history, plan, resolved, steps,
                   ext_count>>

NextAgain ==
    \/ ResolveFirst
    \/ ResolveSame
    \/ ResolveReturned

SpecAgain == InitAgain /\ [][NextAgain]_vars

(***************************************************************************)
(* Cycles: an engine has planned and executed twice on the directory, the  *)
(* second time on files of the directory as the first operation left it,   *)
(* with nothing else touching the directory; the operations are then       *)
(* reverted in any order.                                                  *)
(***************************************************************************)
\* the names a file of the directory can have after the first operation
CycleNames ==
    Names \cup {generate_new_filename(<<"A">>, n, generate_timestamp(0)) : n \in Names}

\* the names of the files of a directory, as a list
RECURSIVE Listing(_)
Listing(S) ==
    IF S = {} THEN <<>>
    ELSE LET n == CHOOSE m \in S : TRUE
         IN  <<n>> \o Listing(S \ {n})

\* the lists of paths a caller selects in a directory: one file, or all
Selections(files) ==
    LET present == {n \in CycleNames : PathStr(n) \in DOMAIN files}
    IN  {<<n>> : n \in present} \cup {Listing(present)}

\* preview_rename(file_paths, file_types) and execute_rename of its result at
\* instant t, by an engine e with its directory
Cycle(e, file_paths, file_types, t) ==
    LET p      == preview_rename(e.files, file_paths, file_types, t, t)
        done   == execute_loop(p, [files |-> e.files, successful |-> <<>>,
                                   failed |-> <<>>], t)
        record == OperationRecord(isoformat(t), t, p, done.successful, done.failed)
        h      == append_operation(e.history, record)
    IN  [files |-> done.files, history |-> h,
         persisted |-> save_history(e.persisted, h, "written"), plan |-> p]

InitCycles ==
    /\ os_name \in {"posix", "nt"}
    /\ writable = TRUE
    /\ steps = 0
    /\ ext_count = 0
    /\ resolved = <<>>
    /\ call = [op |-> "init"]
    /\ \E cc \in ContentsOfC, file_paths \in InputLists, t \in Later(0) :
        \E e1 \in {Cycle([files |-> Directory(cc, {}),
                          history |-> load_history(Absent, 0),
                          persisted |-> Absent],
                         file_paths, {"word", "pdf"}, 0)} :
            \E again \in Selections(e1.files) :
                \E e2 \in {Cycle(e1, again, {"word", "pdf"}, t)} :
                    /\ now = t
                    /\ plan = e2.plan
                    /\ fs = e2.files
                    /\ history = e2.history
                    /\ persisted = e2.persisted

NextCycles ==
    \/ Revert

SpecCycles == InitCycles /\ [][NextCycles]_vars

(***************************************************************************)
(* The claims.                                                             *)
(***************************************************************************)
ReadyEntries(p) == {i \in 1..Len(p) : p[i].status = "ready"}

\* the OperationRecord the last execute_rename appended
LastOperation == history.operations[Len(history.operations)]

IsPrefix(a, b) == Len(a) <= Len(b) /\ SubSeq(b, 1, Len(a)) = a

\* C1: when revert_operation(id) comes right after the execute_rename that
\* made the operation, every file of its successful_renames is again at its
\* original_path, none is at its new_path, and the directory holds the paths
\* it held before the execute_rename.
C1_RevertRoundTrip ==
    (call.op = "revert" /\ call.follows /\ call.success) =>
        /\ \A i \in 1..Len(LastOperation.successful_renames) :
              /\ LastOperation.successful_renames[i].original_path \in DOMAIN fs
              /\ LastOperation.successful_renames[i].new_path \notin DOMAIN fs
        /\ DOMAIN fs = DOMAIN call.before

\* C2: in the plan one preview_rename returns, no two ready entries have the
\* same new_path.
C2_UniqueNewPaths ==
    call.op = "preview" =>
        \A i, j \in ReadyEntries(plan) :
            i # j => plan[i].new_path # plan[j].new_path

\* C3, as claimed: the path _resolve_name_conflict returns never exists at
\* the time of the call.
C3_ReturnedPathIsFree ==
    \A i \in 1..Len(resolved) :
        resolved[i].event = "resolve" => ~resolved[i].path_existed

\* C3, amended: the path _resolve_name_conflict returns does not exist at the
\* time of the call, unless the target and its variants with all the
\* counters 1..999 existed.
C3_ReturnedPathIsFreeUnlessExhausted ==
    \A i \in 1..Len(resolved) :
        (resolved[i].event = "resolve" /\ ~resolved[i].exhausted)
            => ~resolved[i].path_existed

\* C3, the case: a target that existed was resolved to a path that did not
C3_Witness ==
    \E i \in 1..Len(resolved) :
        /\ resolved[i].event = "resolve"
        /\ resolved[i].target_existed
        /\ ~resolved[i].exhausted
        /\ resolved[i].path # resolved[i].target
        /\ ~resolved[i].path_existed

Extracts(files, path) ==
    path \in DOMAIN files /\ files[path].kind = "ok"

\* whether the last call planned a list whose files are all of selected types
PlannedSelected ==
    /\ call.op = "preview"
    /\ \A i \in 1..Len(call.file_paths) :
          get_file_type_from_extension(Suffix(call.file_paths[i])) \in call.file_types

\* C5: for an input list of files of selected types, preview_rename returns
\* one entry per input file, in input order: an 'error' entry for a file
\* whose extraction fails or on which planning raises, a 'ready' entry for
\* every other file; a failing file does not end the planning of the rest.
C5_BatchIsolation ==
    PlannedSelected =>
        /\ Len(plan) = Len(call.file_paths)
        /\ \A i \in 1..Len(plan) :
              /\ plan[i].original_path = PathStr(call.file_paths[i])
              /\ plan[i].status =
                     IF Extracts(fs, PathStr(call.file_paths[i]))
                     THEN "ready" ELSE "error"

\* C5, the case: a file that fails was planned before one that succeeds
C5_Witness ==
    /\ PlannedSelected
    /\ \E i, j \in 1..Len(plan) :
          /\ i < j
          /\ plan[i].status = "error"
          /\ plan[j].status = "ready"

\* the entries of the plan whose original file was missing when the last
\* execute_rename began
Missing == {i \in 1..Len(plan) : plan[i].original_path \notin DOMAIN call.before}

\* whether the last call executed a plan of ready entries with pairwise
\* distinct paths in a directory where, since planning, nothing happened but
\* the deletion of original files: the directory is writable and no file is
\* at a planned path
ExecutedReadyPlan ==
    /\ call.op = "execute"
    /\ Len(plan) >= 1
    /\ \A i \in 1..Len(plan) : plan[i].status = "ready"
    /\ \A i, j \in 1..Len(plan) :
          i # j => /\ plan[i].new_path # plan[j].new_path
                   /\ plan[i].original_path # plan[j].original_path
    /\ \A i, j \in 1..Len(plan) : plan[i].new_path # plan[j].original_path
    /\ writable
    /\ \A i \in 1..Len(plan) : plan[i].new_path \notin DOMAIN call.before

\* C6: executing a plan of n ready entries with pairwise distinct paths, of
\* which k original files were deleted after planning (and nothing else
\* happened: the directory is writable, no planned path is taken), records n-k
\* successful and k failed renames; each deleted file is in failed_renames
\* with the 'not found' reason, the other files are at their new paths, and
\* the operation appended to the history holds exactly n-k successful
\* renames.
C6_PartialFailureAccounting ==
    ExecutedReadyPlan =>
        /\ LastOperation.operation_id = call.operation_id
        /\ LastOperation.successful_count = Len(plan) - Cardinality(Missing)
        /\ LastOperation.failed_count = Cardinality(Missing)
        /\ Len(LastOperation.successful_renames) = Len(plan) - Cardinality(Missing)
        /\ Len(LastOperation.failed_renames) = Cardinality(Missing)
        /\ \A i \in Missing :
              \E f \in 1..Len(LastOperation.failed_renames) :
                  LastOperation.failed_renames[f] =
                      Failure(plan[i].original_name, "Arquivo nao encontrado")
        /\ \A i \in (1..Len(plan)) \ Missing :
              /\ plan[i].new_path \in DOMAIN fs
              /\ plan[i].original_path \notin DOMAIN fs
              /\ fs[plan[i].new_path] = call.before[plan[i].original_path]
              /\ \E r \in 1..Len(LastOperation.successful_renames) :
                    /\ LastOperation.successful_renames[r].original_path
                           = plan[i].original_path
                    /\ LastOperation.successful_renames[r].new_path = plan[i].new_path

\* C6, the case: of a plan of several ready entries some originals were
\* deleted and some were not
C6_Witness ==
    /\ ExecutedReadyPlan
    /\ Len(plan) >= 2
    /\ Missing # {}
    /\ Missing # 1..Len(plan)

\* C7: every OperationRecord of the history has successful_count ==
\* len(successful_renames), failed_count == len(failed_renames) and
\* total_files == successful_count + failed_count.
C7_CountsAgree ==
    \A i \in 1..Len(history.operations) :
        /\ history.operations[i].successful_count
               = Len(history.operations[i].successful_renames)
        /\ history.operations[i].failed_count
               = Len(history.operations[i].failed_renames)
        /\ history.operations[i].total_files
               = history.operations[i].successful_count
                     + history.operations[i].failed_count

\* C7, the case: an execute_rename recorded both renamed and failed files
C7_Witness ==
    /\ call.op = "execute"
    /\ LastOperation.successful_count >= 1
    /\ LastOperation.failed_count >= 1

\* C8: over the calls on one engine instance no OperationRecord is removed
\* or changed: the operations before a step are a prefix of those after it,
\* and revert_operation, whatever its outcome, leaves operations and
\* last_operation as they were.
C8_AppendOnly ==
    [][call'.op # "construct" =>
          /\ IsPrefix(history.operations, history'.operations)
          /\ call'.op = "revert" =>
                /\ history'.operations = history.operations
                /\ history'.last_operation = history.last_operation]_vars

\* C8, the case: an operation of the history was reverted
C8_Witness ==
    /\ call.op = "revert"
    /\ call.success
    /\ call.reverted_count >= 1
    /\ Len(history.operations) >= 1

\* C9, as claimed: every execute_rename and every revert_operation ends with
\* a save of the history.
C9_SavedAfterExecuteAndRevert ==
    call.op \in {"execute", "revert"} => Len(call.saves) >= 1

\* C9, amended: every execute_rename ends with one save of the in-memory
\* history, which, when the write succeeds, leaves the file holding that
\* history; revert_operation performs no save and leaves the file as it was.
C9_SavedAfterExecute ==
    [][/\ call'.op = "execute" =>
             /\ Len(call'.saves) = 1
             /\ call'.saves = <<"written">> =>
                   persisted' = Stored(json_dump(history'))
       /\ call'.op = "revert" =>
             /\ call'.saves = <<>>
             /\ persisted' = persisted]_vars

\* C9, the case: an execute_rename wrote a history with an operation
C9_Witness ==
    /\ call.op = "execute"
    /\ call.saves = <<"written">>
    /\ Len(history.operations) >= 1
    /\ persisted = Stored(json_dump(history))

\* C10: after a _save_history that succeeded, a new engine on the directory
\* loads a history whose operations, created_at and last_operation are those
\* that were saved.
C10_SaveLoadRoundTrip ==
    [][(call.op = "execute" /\ call.saves = <<"written">> /\ call'.op = "construct")
          => /\ history'.operations = history.operations
             /\ history'.created_at = history.created_at
             /\ history'.last_operation = history.last_operation]_vars

\* C10, the case: a new engine loaded a history that holds an operation with
\* renamed and failed files
C10_Witness ==
    /\ call.op = "construct"
    /\ Len(history.operations) >= 1
    /\ history.last_operation # None
    /\ LastOperation.successful_count >= 1
    /\ LastOperation.failed_count >= 1

\* C11: loading the history when the history file is absent, or cannot be
\* read or parsed, yields an initialized history: no operations, a
\* created_at value read from the clock, and last_operation null.
C11_LoadStartsFresh ==
    (call.op = "construct" /\ persisted \in {Absent, Corrupt}) =>
        /\ history.operations = <<>>
        /\ history.created_at # None
        /\ history.created_at = isoformat(now)
        /\ history.last_operation = None

\* C11, the case: a new engine was made on a directory whose history file
\* cannot be parsed
C11_Witness ==
    /\ call.op = "construct"
    /\ persisted = Corrupt
    /\ history.operations = <<>>

\* whether the last call was an execute_rename whose write of the history
\* file failed
ExecutedUnsaved ==
    /\ call.op = "execute"
    /\ call.saves # <<"written">>

\* C12: when writing the history file fails during execute_rename, the call
\* returns its normal result, the renames it made stay on the filesystem, and
\* the in-memory history holds the new OperationRecord; only the file lags.
C12_SaveFailureIsNotFatal ==
    ExecutedUnsaved =>
        /\ call.result.total_files = Len(plan)
        /\ call.result.successful = Len(call.result.successful_renames)
        /\ call.result.failed = Len(call.result.failed_renames)
        /\ call.result.successful + call.result.failed = Len(plan)
        /\ Len(history.operations) >= 1
        /\ LastOperation.operation_id = call.operation_id
        /\ LastOperation.successful_renames = call.result.successful_renames
        /\ LastOperation.failed_renames = call.result.failed_renames
        /\ history.last_operation = call.operation_id
        /\ \A i \in 1..Len(call.result.successful_renames) :
              /\ call.result.successful_renames[i].new_path \in DOMAIN fs
              /\ call.result.successful_renames[i].original_path \notin DOMAIN fs
        /\ persisted # Stored(json_dump(history))

\* C12, the case: an execute_rename renamed a file and its write of the
\* history file failed
C12_Witness ==
    /\ ExecutedUnsaved
    /\ call.result.successful >= 1
    /\ Len(history.operations) >= 1

\* the ready entries of the plan that were no longer valid when the last
\* execute_rename began: the original file was gone, or a file was at the
\* new path
Invalidated ==
    {i \in ReadyEntries(plan) :
        \/ plan[i].original_path \notin DOMAIN call.before
        \/ plan[i].new_path \in DOMAIN call.before}

\* C13: when the directory was changed between preview_rename and
\* execute_rename so that a ready entry is no longer valid (its original file
\* removed, or a file created at its new_path), execute_rename reports the
\* entry in failed_renames, not in successful_renames.
C13_LostRacesAreFailures ==
    call.op = "execute" =>
        \A i \in Invalidated :
            /\ \E f \in 1..Len(call.result.failed_renames) :
                  call.result.failed_renames[f].file = plan[i].original_name
            /\ \A r \in 1..Len(call.result.successful_renames) :
                  call.result.successful_renames[r].original_path
                      # plan[i].original_path

\* C14: no two OperationRecords of the history have the same operation_id.
C14_UniqueOperationIds ==
    \A i, j \in 1..Len(history.operations) :
        i # j => history.operations[i].operation_id
                     # history.operations[j].operation_id

\* the input paths of the last preview_rename whose type is selected
SelectedPaths ==
    SelectSeq(call.file_paths,
              LAMBDA p : get_file_type_from_extension(Suffix(p)) \in call.file_types)

\* C15: preview_rename returns one entry for each input path whose type,
\* derived from its extension, is selected and none for any other input
\* path, the entries in the order of the input paths.
C15_OneEntryPerSelectedPath ==
    call.op = "preview" =>
        /\ Len(plan) = Len(SelectedPaths)
        /\ \A i \in 1..Len(plan) :
              /\ plan[i].original_path = PathStr(SelectedPaths[i])
              /\ plan[i].original_name = Str(SelectedPaths[i])

\* C15, the case: a path of a type that is not selected came before one of a
\* selected type
C15_Witness ==
    /\ call.op = "preview"
    /\ Len(plan) >= 1
    /\ Len(plan) < Len(call.file_paths)
    /\ get_file_type_from_extension(Suffix(call.file_paths[1])) \notin call.file_types

\* C16: preview_rename leaves the filesystem and the history, in memory and
\* in its file, as they were.
C16_PreviewChangesNothing ==
    [][call'.op = "preview" =>
          /\ fs' = fs
          /\ writable' = writable
          /\ history' = history
          /\ persisted' = persisted]_vars

\* C16, the case: a preview_rename planned a rename in a directory whose
\* history holds an operation
C16_Witness ==
    /\ call.op = "preview"
    /\ ReadyEntries(plan) # {}
    /\ Len(history.operations) >= 1
    /\ persisted # Absent

\* what follows the stem in a synthesized name: '_', the timestamp and the
\* extension of the original
NameTail == <<"_">> \o call.timestamp \o Suffix(call.original_path)

\* the stem of the synthesized name, before '_<timestamp>'
NameStem == SubSeq(call.new_name, 1, Len(call.new_name) - Len(NameTail))

\* C17: for every title and every original path, _generate_new_filename
\* returns a name that is not empty, ends with '_', the timestamp and the
\* extension of the original as it is written, and whose stem before that is
\* not empty, has at most 100 characters and none of < > : " / \ | ? *.
C17_NameValidity ==
    call.op = "generate" =>
        /\ Len(call.new_name) >= 1
        /\ Len(call.new_name) > Len(NameTail)
        /\ SubSeq(call.new_name, Len(NameStem) + 1, Len(call.new_name)) = NameTail
        /\ Len(NameStem) >= 1
        /\ Len(NameStem) <= MaxTitleLength
        /\ \A i \in 1..Len(NameStem) : NameStem[i] \notin ForbiddenChars

\* C17, the case: a title longer than 100 characters was cut to a stem of
\* 100, for an original whose extension is in upper case
C17_Witness ==
    /\ call.op = "generate"
    /\ Len(call.title) > MaxTitleLength
    /\ Len(NameStem) = MaxTitleLength
    /\ Suffix(call.original_path) = <<".", "P", "D", "F">>

\* C18: revert_operation with an operation_id that no OperationRecord of the
\* history has returns a failure with the 'operation not found' error,
\* renames nothing, and leaves the filesystem and the history as they were.
C18_RevertUnknownId ==
    [][(/\ call'.op = "revert"
        /\ \A i \in 1..Len(history.operations) :
              history.operations[i].operation_id # call'.operation_id)
          => /\ ~call'.success
             /\ call'.error = "Operacao nao encontrada"
             /\ fs' = fs
             /\ history' = history
             /\ persisted' = persisted]_vars

\* C18, the case: an id that is not in a history with an operation that
\* renamed a file was asked to be reverted
C18_Witness ==
    /\ call.op = "revert"
    /\ ~call.success
    /\ Len(history.operations) >= 1
    /\ LastOperation.successful_count >= 1

\* the successful_renames of the operation with an id, as revert_operation
\* finds it
RenamesOf(operation_id) ==
    history.operations[find_operation(history, operation_id)].successful_renames

\* whether the paths of some records are pairwise distinct, so that what one
\* record finds does not depend on the records before it
DistinctPaths(rs) ==
    /\ \A i, j \in 1..Len(rs) : i # j => rs[i].new_path # rs[j].new_path
    /\ \A i, j \in 1..Len(rs) : i # j => rs[i].original_path # rs[j].original_path
    /\ \A i, j \in 1..Len(rs) : rs[i].new_path # rs[j].original_path

\* C19: revert_operation goes through all the records of the operation's
\* successful_renames in their order: a record whose new_path exists is
\* renamed back to original_path and counted, unless the rename raises; a
\* record whose new_path does not exist, or whose rename raises, gives a
\* failed-revert entry and the records after it are still processed; on
\* return reverted_count + len(failed_reverts) == total_to_revert ==
\* len(successful_renames).
C19_RevertProcessesEveryRecord ==
    [][(call'.op = "revert" /\ call'.success) =>
          LET rs == RenamesOf(call'.operation_id)
              fails(r) == \/ r.new_path \notin DOMAIN fs
                          \/ rename_raises(fs, r.new_path, r.original_path)
              failing == SelectSeq(rs, fails)
          IN  /\ call'.total_to_revert = Len(rs)
              /\ call'.reverted_count + Len(call'.failed_reverts) = Len(rs)
              /\ DistinctPaths(rs) =>
                    /\ Len(call'.failed_reverts) = Len(failing)
                    /\ \A k \in 1..Len(failing) :
                          /\ call'.failed_reverts[k].file = failing[k].new_name
                          /\ failing[k].new_path \notin DOMAIN fs =>
                                call'.failed_reverts[k].error
                                    = "Arquivo renomeado nao encontrado"
                          /\ (failing[k].new_path \in DOMAIN fs)
                                 = (failing[k].new_path \in DOMAIN fs')
                    /\ \A i \in 1..Len(rs) :
                          ~fails(rs[i]) =>
                              /\ rs[i].new_path \notin DOMAIN fs'
                              /\ rs[i].original_path \in DOMAIN fs'
                              /\ fs'[rs[i].original_path] = fs[rs[i].new_path]]_vars

\* C19, the case: of an operation with distinct paths the first record
\* failed to revert and a later one was reverted
C19_Witness ==
    /\ call.op = "revert"
    /\ call.success
    /\ DistinctPaths(RenamesOf(call.operation_id))
    /\ Len(RenamesOf(call.operation_id)) >= 2
    /\ call.reverted_count >= 1
    /\ Len(call.failed_reverts) >= 1
    /\ call.failed_reverts[1].file = RenamesOf(call.operation_id)[1].new_name

\* the positions of the plan that are in S, in plan order
Positions(S) == SelectSeq([i \in 1..Len(plan) |-> i], LAMBDA i : i \in S)

\* the paths the ready entries of the plan name
ReadyPaths ==
    {plan[i].original_path : i \in ReadyEntries(plan)}
        \cup {plan[i].new_path : i \in ReadyEntries(plan)}

\* whether the entries at the positions S are the successful_renames of the
\* last execute_rename and the other entries its failed_renames, each list
\* in plan order
RecordedAs(S) ==
    LET done   == Positions(S)
        failed == Positions((1..Len(plan)) \ S)
    IN  /\ \A i \in S : plan[i].status = "ready"
        /\ Len(call.result.successful_renames) = Len(done)
        /\ \A k \in 1..Len(done) :
              /\ call.result.successful_renames[k].original_path
                     = plan[done[k]].original_path
              /\ call.result.successful_renames[k].new_path = plan[done[k]].new_path
        /\ Len(call.result.failed_renames) = Len(failed)
        /\ \A k \in 1..Len(failed) :
              /\ call.result.failed_renames[k].file = plan[failed[k]].original_name
              /\ plan[failed[k]].status # "ready" =>
                    call.result.failed_renames[k].error = plan[failed[k]].error

\* C20: execute_rename goes through the plan in its order to the end: every
\* entry is recorded once, in successful_renames or in failed_renames, each
\* list in plan order; an entry that is not 'ready' is recorded as failed
\* with its own error and changes nothing on the filesystem; a failing entry
\* does not keep the later entries from being processed.
C20_ExecuteProcessesEveryEntry ==
    call.op = "execute" =>
        /\ \E S \in SUBSET (1..Len(plan)) : RecordedAs(S)
        /\ call.result.successful + call.result.failed = Len(plan)
        /\ \A p \in (DOMAIN fs \cup DOMAIN call.before) \ ReadyPaths :
              /\ p \in DOMAIN fs
              /\ p \in DOMAIN call.before
              /\ fs[p] = call.before[p]

\* C20, the case: the first entry of the plan was not ready and a later
\* entry was renamed
C20_Witness ==
    /\ call.op = "execute"
    /\ Len(plan) >= 2
    /\ plan[1].status = "error"
    /\ call.result.failed >= 1
    /\ call.result.successful >= 1
    /\ call.result.failed_renames[1].error = plan[1].error

\* the timestamps the clock can give
Stamps == {generate_timestamp(t) : t \in Instants}

\* the titles the files of the directory yield
PlannedTitles == {<<"A">>, <<"A", " ">>}

\* whether new_name is a name synthesized with the timestamp, as it is or
\* with a counter
CarriesStamp(new_name, timestamp) ==
    \E title \in PlannedTitles, n \in Names :
        LET target == generate_new_filename(title, n, timestamp)
        IN  \/ new_name = Str(target)
            \/ \E c \in 1..(MaxTaken + 1) :
                  new_name = Candidate(Str(Stem(target)), c, Str(Suffix(target)))

\* C21: during and after one preview_rename call, every 'ready' entry has in
\* its new_name the timestamp read when the call was entered, and no other
\* one, whatever the clock showed when the entry was planned.
C21_SharedTimestamp ==
    call.op \in {"planning", "preview"} =>
        \A i \in ReadyEntries(plan) :
            /\ CarriesStamp(plan[i].new_name, generate_timestamp(call.started))
            /\ \A ts \in Stamps \ {generate_timestamp(call.started)} :
                  ~CarriesStamp(plan[i].new_name, ts)

\* C21, the case: the call was entered in one minute, its last file was
\* planned in the next one, and two entries or more are ready
C21_Witness ==
    /\ call.op = "preview"
    /\ call.started = 0
    /\ call.at[Len(call.at)] = MicrosPerMinute
    /\ Cardinality(ReadyEntries(plan)) >= 2
    /\ plan[Len(plan)].status = "ready"
    /\ plan[Len(plan)].original_path = PathStr(call.file_paths[Len(call.file_paths)])

\* the last entry of the log of the resolver, and the name it was asked about
LastResolved == resolved[Len(resolved)]
LastTarget == CHOOSE target_path \in ResolveTargets :
                  PathStr(target_path) = LastResolved.target

\* the path '<stem>_<counter, 3 digits><ext>' in the directory of the target
Numbered(target_path, counter) ==
    BaseDir \o Str(Stem(target_path)) \o "_" \o Str(Pad3(counter))
            \o Str(Suffix(target_path))

\* C22: right after a call of _resolve_name_conflict, the path returned is
\* the target when the target does not exist; when the target exists and some
\* counter in 1..999 is free, it is '<stem>_<counter, 3 digits><ext>' for the
\* smallest counter whose candidate does not exist.
C22_SmallestFreeCounter ==
    call.op = "resolve" =>
        /\ PathStr(LastTarget) \notin DOMAIN fs
              => LastResolved.path = PathStr(LastTarget)
        /\ ( /\ PathStr(LastTarget) \in DOMAIN fs
             /\ \E c \in 1..MaxCounter : Numbered(LastTarget, c) \notin DOMAIN fs )
              => \E c \in 1..MaxCounter :
                    /\ LastResolved.path = Numbered(LastTarget, c)
                    /\ Numbered(LastTarget, c) \notin DOMAIN fs
                    /\ \A d \in 1..(c - 1) : Numbered(LastTarget, d) \in DOMAIN fs

\* C22, the case: the target and its variants 1 and 2 exist and the variant 3
\* was returned, after a call on a target that does not exist had returned it
\* unchanged
C22_Witness ==
    /\ call.op = "resolve"
    /\ Len(resolved) >= 2
    /\ resolved[1].event = "resolve"
    /\ ~resolved[1].target_existed
    /\ resolved[1].path = resolved[1].target
    /\ PathStr(LastTarget) \in DOMAIN fs
    /\ Numbered(LastTarget, 1) \in DOMAIN fs
    /\ Numbered(LastTarget, 2) \in DOMAIN fs
    /\ LastResolved.path = Numbered(LastTarget, 3)

\* C23: a call of _resolve_name_conflict that has been entered returns; the
\* counter never passes 999 while the loop runs; and when the target and the
\* candidates of all the counters 1..999 exist, the call returns when the
\* counter has passed 999 the name with the precise timestamp, which is none
\* of the numbered names, whether a file exists at it or not.
C23_ResolverTerminates ==
    /\ (call.op = "resolving") ~> (call.op = "returned")
    /\ [](call.op = "resolving" => call.counter \in 1..MaxCounter)
    /\ []((call.op = "returned" /\ Exhausted(fs, call.target_path)) =>
            /\ call.counter = MaxCounter + 1
            /\ call.name = Fallback(call.base_name, call.extension, now)
            /\ \A c \in 1..MaxCounter :
                  BaseDir \o call.name # Numbered(call.target_path, c))

\* C23, the case: the target and all its numbered variants exist, and the
\* name returned once the counter has passed 999 is that of a file that
\* exists
C23_Witness ==
    /\ call.op = "returned"
    /\ Exhausted(fs, call.target_path)
    /\ call.counter = MaxCounter + 1
    /\ BaseDir \o call.name \in DOMAIN fs

\* C24, as claimed: with the directory unchanged, _resolve_name_conflict
\* called again on the same target returns what it returned before, and
\* called on the path it returned gives that path back.
C24_Idempotent ==
    call.op \in {"same", "returned"} => call.name = call.first

\* C24, amended: the same, unless the target and the candidates of all the
\* counters 1..999 exist.
C24_IdempotentUnlessExhausted ==
    (call.op \in {"same", "returned"} /\ ~Exhausted(fs, call.target_path))
        => call.name = call.first

\* C24, the case: the target exists, a numbered name was returned for it in
\* one minute, and the resolver applied to that name in the next minute gave
\* it back
C24_Witness ==
    /\ call.op = "returned"
    /\ PathStr(call.target_path) \in DOMAIN fs
    /\ ~Exhausted(fs, call.target_path)
    /\ now = MicrosPerMinute
    /\ call.first # Str(call.target_path)
    /\ call.name = call.first

\* C25: the engine starts from an empty history or from one it has saved;
\* at all times last_operation is None exactly when operations is empty, and
\* otherwise it is the operation_id of the last element of operations.
C25_LastOperation ==
    /\ (history.last_operation = None) <=> (history.operations = <<>>)
    /\ history.operations # <<>> =>
          history.last_operation = LastOperation.operation_id

\* C25, the case: two operations with different ids were executed, then one
\* of them was reverted
C25_Witness ==
    /\ call.op = "revert"
    /\ call.success
    /\ Len(history.operations) = 2
    /\ history.operations[1].operation_id # history.operations[2].operation_id
    /\ history.last_operation = history.operations[2].operation_id

\* C26, as claimed: execute_rename destroys no file; whatever the plan and
\* the directory, the directory holds as many files after the call as it
\* held before.
C26_ExecuteKeepsEveryFile ==
    call.op = "execute" =>
        Cardinality(DOMAIN fs) = Cardinality(DOMAIN call.before)

\* C27, as claimed: revert_operation destroys no file; a file that was made
\* from outside at an original_path after the execute is still there after
\* the revert, and the directory holds as many files as before the revert.
C27_RevertKeepsEveryFile ==
    (call.op = "revert" /\ call.success /\ ~call.follows) =>
        /\ \A p \in DOMAIN call.before :
              call.before[p].id = "x" => (p \in DOMAIN fs /\ fs[p] = call.before[p])
        /\ Cardinality(DOMAIN fs) = Cardinality(DOMAIN call.before)

\* the files of an operation that a later operation has renamed again and
\* that are where the later operation put them: pairs of positions in the
\* successful renames of the first and of the second operation
RenamedAgain ==
    {rs \in (1..Len(history.operations[1].successful_renames))
              \X (1..Len(history.operations[2].successful_renames)) :
        /\ history.operations[2].successful_renames[rs[2]].original_path
              = history.operations[1].successful_renames[rs[1]].new_path
        /\ history.operations[2].successful_renames[rs[2]].new_path \in DOMAIN fs}

\* C28, as claimed: after two plan-then-execute cycles with no external
\* change, reverting the second operation and then the first puts every file
\* back at the path it had before the first; reverting the first operation
\* while the second is applied reports every file the second has renamed
\* again as a failed revert and leaves it where it is.
C28_RevertInReverseOrder ==
    [][ /\ ( /\ steps = 1
             /\ call.op = "revert"
             /\ call.operation_id = history.operations[2].operation_id
             /\ call'.op = "revert"
             /\ call'.operation_id = history.operations[1].operation_id )
            => \E cc \in ContentsOfC : fs' = Directory(cc, {})
        /\ ( /\ steps = 0
             /\ call'.op = "revert"
             /\ call'.operation_id = history.operations[1].operation_id )
            => \A rs \in RenamedAgain :
                  LET first  == history.operations[1].successful_renames[rs[1]]
                      second == history.operations[2].successful_renames[rs[2]]
                  IN  /\ \E f \in 1..Len(call'.failed_reverts) :
                            call'.failed_reverts[f].file = first.new_name
                      /\ second.new_path \in DOMAIN fs'
                      /\ fs'[second.new_path] = fs[second.new_path]
      ]_vars

\* the entries of the plan that the last call of execute_rename has renamed
Succeeded ==
    {i \in 1..Len(plan) :
        \E r \in 1..Len(call.result.successful_renames) :
            call.result.successful_renames[r].original_path = plan[i].original_path}

\* C29: when execute_rename is called again with the same plan right after
\* a call of execute_rename, the second call changes no file, reports every
\* entry the first call had renamed as failed with 'Arquivo nao encontrado',
\* and appends one operation more, with successful_count 0.
C29_ReexecutionIsHarmless ==
    [][ (call.op = "execute" /\ call'.op = "execute" /\ steps' = steps + 1) =>
            /\ fs' = fs
            /\ call'.result.successful = 0
            /\ Len(call'.result.failed_renames) = Len(plan)
            /\ \A i \in Succeeded :
                  call'.result.failed_renames[i]
                      = Failure(plan[i].original_name, "Arquivo nao encontrado")
            /\ Len(history'.operations) = Len(history.operations) + 1
            /\ SubSeq(history'.operations, 1, Len(history.operations))
                  = history.operations
            /\ history'.operations[Len(history'.operations)].successful_count = 0
      ]_vars

\* C29, the case: a plan was made, executed with some file renamed, and
\* executed again
C29_Witness ==
    /\ call.op = "execute"
    /\ steps = 3
    /\ Len(history.operations) = 2
    /\ history.operations[1].successful_count >= 1
    /\ history.operations[1].total_files = Len(plan)
    /\ history.operations[2].total_files = Len(plan)
    /\ history.operations[2].successful_count = 0
    /\ history.operations[2].failed_count = Len(plan)

\* the operations _load_history reads from the history file as it is
PersistedOperations == load_history(persisted, now).operations

\* C30, as claimed: through every call of execute_rename and of
\* revert_operation, whether its save succeeds or fails, the operations in
\* the history file are a prefix of the operations in memory, and they are
\* not fewer after the call than before.
C30_PersistedIsPrefix ==
    [][ call'.op \in {"execute", "revert"} =>
            /\ IsPrefix(PersistedOperations', history'.operations)
            /\ Len(PersistedOperations') >= Len(PersistedOperations)
      ]_vars

====
